---- MODULE Spec2Model ----
(***************************************************************************)
(* A model of the value conversion pipeline of xlwings                     *)
(* (xlwings/conversion/standard.py, xlwings/conversion/object_conv.py).    *)
(*                                                                         *)
(* Python values are tagged records: the field t is the runtime type, the  *)
(* field v the payload.  A list (or tuple) is [t |-> "list", v |-> <<..>>] *)
(* with 0-based access through Item.  A stage is an operator from a        *)
(* context record to a context record; the context carries the fields of   *)
(* the conversion context (range, value, meta), the error a stage raised   *)
(* (err) and the worksheet the range collaborator reads and writes.        *)
(***************************************************************************)
EXTENDS Integers, Sequences, FiniteSets, TLC

VARIABLES
    accessors,  \* the registry: entries [key, cls] in registration order
    cache,      \* ObjectConverter.cache
    written,    \* history: the successful write_value calls, oldest first
    sheet,      \* the worksheet cells, by <<row, column>>, 0-based
    c,          \* the context of the last stage or pipeline run
    op          \* the last operation: its name, inputs and outcome

vars == <<accessors, cache, written, sheet, c, op>>

----------------------------------------------------------------------------
(* Bounds of the model *)

MaxRows == 3
MaxCols == 3
MaxSteps == 2
MaxWrites == 3

----------------------------------------------------------------------------
(* Python values *)

PyNone == [t |-> "NoneType", v |-> 0]
PyInt(n) == [t |-> "int", v |-> n]
PyFloat(n) == [t |-> "float", v |-> n]
PyStr(s) == [t |-> "str", v |-> s]
PyList(s) == [t |-> "list", v |-> s]

\* isinstance(x, (list, tuple))
IsList(x) == x.t = "list"
\* len(x)
PyLen(x) == Len(x.v)
\* x[i], 0-based
Item(x, i) == x.v[i + 1]
\* bool(x): None, a zero number, the empty string, the empty list and the
\* empty dict are false; every other value, an object included, is true
Truthy(x) ==
    CASE x.t \in {"list", "dict"} -> Len(x.v) > 0
      [] x.t \in {"int", "float"} -> x.v # 0
      [] x.t = "str" -> x.v # ""
      [] x.t = "NoneType" -> FALSE
      [] OTHER -> TRUE
\* hash(x) is defined: a list and a dict are unhashable
Hashable(x) == x.t \notin {"list", "dict"}
\* a == b on two dictionary keys: numbers compare by value, int or float
KeyEq(a, b) ==
    IF a.t \in {"int", "float"} /\ b.t \in {"int", "float"} THEN a.v = b.v
    ELSE a.t = b.t /\ a = b
\* the characters of a string of exactly two characters, <<>> for a string
\* of any other length; strings are atoms of the model, so the strings of
\* two characters are listed
TwoChars(s) ==
    CASE s = "ab" -> <<"a", "b">>
      [] s = "cd" -> <<"c", "d">>
      [] s = "k1" -> <<"k", "1">>
      [] s = "k2" -> <<"k", "2">>
      [] s = "id" -> <<"i", "d">>
      [] OTHER -> <<>>

NoError == "none"

----------------------------------------------------------------------------
(* Shape normalisation stages *)

\* Ensure2DStage.__call__
Ensure2DStage(ctx) ==
    IF IsList(ctx.value)
    THEN IF PyLen(ctx.value) > 0
         THEN IF ~IsList(Item(ctx.value, 0))
              THEN [ctx EXCEPT !.value = PyList(<<ctx.value>>)]
              ELSE ctx
         ELSE ctx
    ELSE [ctx EXCEPT !.meta = [scalar |-> TRUE],
                     !.value = PyList(<<PyList(<<ctx.value>>)>>)]

\* a mutant of TransposeStage: the last column is dropped (an off-by-one)
TransposeStageDropLast(ctx) ==
    LET n == IF Truthy(ctx.value) THEN PyLen(Item(ctx.value, 0)) ELSE 0
    IN  [ctx EXCEPT !.value =
            PyList([i \in 1..n - 1 |->
                PyList([k \in 1..PyLen(ctx.value) |-> ctx.value.v[k].v[i]])])]

\* TransposeStage.__call__:
\*   [[e[i] for e in c.value] for i in range(len(c.value[0]) if c.value else 0)]
TransposeStage(ctx) ==
    LET n == IF Truthy(ctx.value) THEN PyLen(Item(ctx.value, 0)) ELSE 0
    IN  [ctx EXCEPT !.value =
            PyList([i \in 1..n |->
                PyList([k \in 1..PyLen(ctx.value) |-> ctx.value.v[k].v[i]])])]

\* a mutant of AdjustDimensionsStage: with ndim absent nothing is squeezed
AdjustDimensionsStageNoSqueeze(ctx, ndim) ==
    IF ndim = PyNone THEN ctx
    ELSE IF ndim = PyInt(1)
    THEN IF PyLen(ctx.value) = 1
         THEN [ctx EXCEPT !.value = Item(ctx.value, 0)]
         ELSE [ctx EXCEPT !.err = "Exception"]
    ELSE IF ndim # PyInt(2)
    THEN [ctx EXCEPT !.err = "ValueError"]
    ELSE ctx

\* a mutant of AdjustDimensionsStage: an n-by-1 grid is left nested
AdjustDimensionsStageNoColumn(ctx, ndim) ==
    IF ndim = PyNone
    THEN IF PyLen(ctx.value) = 1
         THEN [ctx EXCEPT !.value =
                  IF PyLen(Item(ctx.value, 0)) = 1
                  THEN Item(Item(ctx.value, 0), 0)
                  ELSE Item(ctx.value, 0)]
         ELSE ctx
    ELSE IF ndim = PyInt(1)
    THEN IF PyLen(ctx.value) = 1
         THEN [ctx EXCEPT !.value = Item(ctx.value, 0)]
         ELSE [ctx EXCEPT !.err = "Exception"]
    ELSE IF ndim # PyInt(2)
    THEN [ctx EXCEPT !.err = "ValueError"]
    ELSE ctx

\* AdjustDimensionsStage.__call__, with self.ndim = options.get('ndim', None)
AdjustDimensionsStage(ctx, ndim) ==
    IF ndim = PyNone
    THEN IF PyLen(ctx.value) = 1
         THEN [ctx EXCEPT !.value =
                  IF PyLen(Item(ctx.value, 0)) = 1
                  THEN Item(Item(ctx.value, 0), 0)
                  ELSE Item(ctx.value, 0)]
         ELSE IF PyLen(ctx.value) = 0
         THEN [ctx EXCEPT !.err = "IndexError"]
         ELSE IF PyLen(Item(ctx.value, 0)) = 1
         THEN [ctx EXCEPT !.value =
                  PyList([k \in 1..PyLen(ctx.value) |-> Item(ctx.value.v[k], 0)])]
         ELSE ctx
    ELSE IF ndim = PyInt(1)
    THEN IF PyLen(ctx.value) = 1
         THEN [ctx EXCEPT !.value = Item(ctx.value, 0)]
         ELSE IF PyLen(ctx.value) = 0
         THEN [ctx EXCEPT !.err = "IndexError"]
         ELSE IF PyLen(Item(ctx.value, 0)) = 1
         THEN [ctx EXCEPT !.value =
                  PyList([k \in 1..PyLen(ctx.value) |-> Item(ctx.value.v[k], 0)])]
         ELSE [ctx EXCEPT !.err = "Exception"]
    ELSE IF ndim # PyInt(2)
    THEN [ctx EXCEPT !.err = "ValueError"]
    ELSE ctx

----------------------------------------------------------------------------
(* The registry and the reference converters *)

TypeKey(name) == [t |-> "type", v |-> name]
\* type(x)
TypeOf(x) == TypeKey(x.t)
\* the option is not in the options mapping
NoOption == [t |-> "absent", v |-> 0]

\* cls.mro() of the types the model uses, most derived first
Mro(name) == IF name = "object" THEN <<"object">> ELSE <<name, "object">>

\* issubclass(cls, Converter), of the classes the modules register
IsConverter(cls) == cls \in {"DictConverter", "ObjectConverter"}

\* the registry after the modules are imported: RangeAccessor.register(Range),
\* RawValueAccessor.register('raw'), ValueAccessor.register(None),
\* DictConverter.register(dict), accessors.register(object, ObjectConverter)
InitialAccessors ==
    << [key |-> TypeKey("Range"), cls |-> "RangeAccessor"],
       [key |-> PyStr("raw"), cls |-> "RawValueAccessor"],
       [key |-> PyNone, cls |-> "ValueAccessor"],
       [key |-> TypeKey("dict"), cls |-> "DictConverter"],
       [key |-> TypeKey("object"), cls |-> "ObjectConverter"] >>

\* accessors.keys()
Keys(reg) == [k \in 1..Len(reg) |-> reg[k].key]
\* key in accessors
HasKey(reg, key) == \E k \in 1..Len(reg) : reg[k].key = key
\* accessors[key]
Lookup(reg, key) == reg[CHOOSE k \in 1..Len(reg) : reg[k].key = key].cls
\* accessors.register(key, cls): a later registration overwrites
RegisterAccessor(reg, key, cls) ==
    IF HasKey(reg, key)
    THEN [k \in 1..Len(reg) |->
            IF reg[k].key = key THEN [key |-> key, cls |-> cls] ELSE reg[k]]
    ELSE Append(reg, [key |-> key, cls |-> cls])

\* the outcome of a call that may raise
Returned(val, cch) == [raised |-> NoError, val |-> val, cache |-> cch]
Raised(e, cch) == [raised |-> e, val |-> PyNone, cache |-> cch]

\* key in cache: a key of the dict equal to it, so that 7 and 7.0 are one key
InCache(cch, key) == \E k \in DOMAIN cch : KeyEq(k, key)
\* cache[key], for a key in the cache
CacheGet(cch, key) == cch[CHOOSE k \in DOMAIN cch : KeyEq(k, key)]

\* a mutant of ObjectConverter_read_value: a miss returns None
ObjectConverter_read_value_quiet(cch, value) ==
    IF ~Hashable(value) THEN Raised("TypeError", cch)
    ELSE IF InCache(cch, value) THEN Returned(CacheGet(cch, value), cch)
    ELSE Returned(PyNone, cch)

\* ObjectConverter.read_value
\* cls.cache[value] raises TypeError for an unhashable value, which the
\* except KeyError clause lets through
ObjectConverter_read_value(cch, value) ==
    IF ~Hashable(value) THEN Raised("TypeError", cch)
    ELSE IF InCache(cch, value) THEN Returned(CacheGet(cch, value), cch)
    ELSE Raised("KeyError", cch)

\* cache[key] = value: an equal key that is in the cache keeps its spelling
\* and takes the value, a new key is added
Store(cch, key, value) ==
    IF InCache(cch, key)
    THEN [k \in DOMAIN cch |-> IF KeyEq(k, key) THEN value ELSE cch[k]]
    ELSE [k \in DOMAIN cch \cup {key} |-> IF k = key THEN value ELSE cch[k]]

\* ObjectConverter.write_value
\* an unhashable key makes the assignment raise TypeError, the cache unchanged
ObjectConverter_write_value(cch, key_val) ==
    IF key_val.t # "KeyValuePair" THEN Raised("TypeError", cch)
    ELSE IF ~Hashable(key_val.key) THEN Raised("TypeError", cch)
    ELSE Returned(key_val.key, Store(cch, key_val.key, key_val.value))

\* the outcome of an expression that may raise
Value(val) == [raised |-> NoError, val |-> val]
Error(e) == [raised |-> e, val |-> PyNone]

\* d[0] of a dict: the entry under a key equal to 0
HasKey0(d) == \E n \in 1..Len(d.v) : KeyEq(d.v[n][1], PyInt(0))
Entry0(d) == d.v[CHOOSE n \in 1..Len(d.v) : KeyEq(d.v[n][1], PyInt(0))][2]

\* len(x) == 2, for the values that have a length
HasLen(x) == x.t \in {"list", "dict", "str"}
LenIs2(x) == IF x.t = "str" THEN TwoChars(x.v) # <<>> ELSE Len(x.v) = 2

\* d[key] = val on the items of a dict: an equal key keeps its place
DictPut(items, key, val) ==
    IF \E n \in 1..Len(items) : KeyEq(items[n][1], key)
    THEN [n \in 1..Len(items) |->
            IF KeyEq(items[n][1], key) THEN <<items[n][1], val>> ELSE items[n]]
    ELSE Append(items, <<key, val>>)

\* the items an element of the argument of dict() is unpacked to
Unpacked(e) ==
    CASE e.t = "list" -> Value(e.v)
      [] e.t = "dict" -> Value([n \in 1..Len(e.v) |-> e.v[n][1]])
      [] e.t = "str" ->
            Value([n \in 1..Len(TwoChars(e.v)) |-> [t |-> "str", v |-> TwoChars(e.v)[n]]])
      [] OTHER -> Error("TypeError")

\* dict(seq) from element k of seq on: each element is unpacked (TypeError
\* when it is not iterable), must have two items (ValueError) and a hashable
\* first item (TypeError)
RECURSIVE DictFrom(_, _, _)
DictFrom(seq, k, items) ==
    IF k > Len(seq) THEN Value([t |-> "dict", v |-> items])
    ELSE LET e == seq[k]
             pair == Unpacked(e)
         IN  IF pair.raised # NoError THEN pair
             ELSE IF ~(IF e.t = "str" THEN TwoChars(e.v) # <<>> ELSE Len(pair.val) = 2)
             THEN Error("ValueError")
             ELSE IF ~Hashable(pair.val[1]) THEN Error("TypeError")
             ELSE DictFrom(seq, k + 1, DictPut(items, pair.val[1], pair.val[2]))

\* dict(value): of a dict a copy, of a list the dict of its pairs, of the
\* empty string the empty dict; a non-empty string has elements of one
\* character (ValueError) and no other value is iterable
PyDict(value) ==
    CASE value.t = "dict" -> Value(value)
      [] value.t = "list" -> DictFrom(value.v, 1, <<>>)
      [] value.t = "str" ->
            IF value.v = "" THEN Value([t |-> "dict", v |-> <<>>]) ELSE Error("ValueError")
      [] OTHER -> Error("TypeError")

\* len(x) == 2 of the assertion: TypeError when x has no length
AssertLen2(x) ==
    IF ~HasLen(x) THEN "TypeError"
    ELSE IF LenIs2(x) THEN NoError ELSE "AssertionError"

\* assert not value or len(value[0]) == 2: the error it ends with, if any.
\* value[0] is the first item of a list, one character of a non-empty
\* string, the entry under the key 0 of a dict (KeyError without one) and
\* a TypeError for every other true value
AssertPairs(value) ==
    CASE ~Truthy(value) -> NoError
      [] Truthy(value) /\ value.t = "list" -> AssertLen2(Item(value, 0))
      [] Truthy(value) /\ value.t = "str" -> "AssertionError"
      [] Truthy(value) /\ value.t = "dict" ->
            IF HasKey0(value) THEN AssertLen2(Entry0(value)) ELSE "KeyError"
      [] OTHER -> "TypeError"

\* DictConverter.read_value: assert not value or len(value[0]) == 2
\*                           return dict(value)
DictConverter_read_value(cch, value) ==
    LET made == PyDict(value)
    IN  IF AssertPairs(value) # NoError THEN Raised(AssertPairs(value), cch)
        ELSE IF made.raised # NoError THEN Raised(made.raised, cch)
        ELSE Returned(made.val, cch)

\* DictConverter.write_value: list(value.items())
DictConverter_write_value(cch, value) ==
    IF value.t = "dict"
    THEN Returned(PyList([k \in 1..Len(value.v) |-> PyList(value.v[k])]), cch)
    ELSE Raised("AttributeError", cch)

----------------------------------------------------------------------------
(* The per-cell conversion stages *)

\* the outcome of _resolve_converters: the candidate classes, or the error
Candidates(list) == [err |-> NoError, list |-> list]
ResolveRaised(e) == [err |-> e, list |-> <<>>]

\* len(x.mro()) is defined for a type only: None and 'raw' have no mro
HasMro(key) == key.t = "type"
MroLen(key) == Len(Mro(key.v))

\* insert key into a list ordered by decreasing mro length, after its equals
RECURSIVE InsertByMro(_, _)
InsertByMro(key, sorted) ==
    IF sorted = <<>> THEN <<key>>
    ELSE IF MroLen(Head(sorted)) >= MroLen(key)
         THEN <<Head(sorted)>> \o InsertByMro(key, Tail(sorted))
         ELSE <<key>> \o sorted

\* sorted(types, key=lambda x: len(x.mro()), reverse=True), a stable sort
RECURSIVE SortedByMro(_)
SortedByMro(types) ==
    IF types = <<>> THEN <<>>
    ELSE InsertByMro(types[Len(types)], SortedByMro(SubSeq(types, 1, Len(types) - 1)))

\* ConvertDataFromReadStage._sort_types_by_inheritance
sort_types_by_inheritance(types) ==
    IF \E k \in 1..Len(types) : ~HasMro(types[k])
    THEN ResolveRaised("AttributeError")
    ELSE Candidates(SortedByMro(types))

\* (accessors[cls] for cls in types
\*      if cls in accessors and issubclass(accessors[cls], Converter))
RECURSIVE RegisteredConverters(_, _)
RegisteredConverters(reg, types) ==
    IF types = <<>> THEN <<>>
    ELSE LET rest == RegisteredConverters(reg, Tail(types))
         IN  IF HasKey(reg, Head(types)) /\ IsConverter(Lookup(reg, Head(types)))
             THEN <<Lookup(reg, Head(types))>> \o rest
             ELSE rest

\* ConvertDataFromReadStage._resolve_converters; value is not used
ConvertDataFromReadStage_resolve_converters(reg, types, value) ==
    IF types = NoOption THEN Candidates(<<>>)
    ELSE IF types = PyStr("all")
    THEN LET sorted == sort_types_by_inheritance(Keys(reg))
         IN  IF sorted.err # NoError THEN sorted
             ELSE Candidates(RegisteredConverters(reg, sorted.list))
    ELSE IF ~IsList(types) THEN Candidates(RegisteredConverters(reg, <<types>>))
    ELSE Candidates(RegisteredConverters(reg, types.v))

\* ConvertDataForWriteStage._resolve_converters:
\*   converter = accessors.get(type(value), None)
ConvertDataForWriteStage_resolve_converters(reg, types, value) ==
    IF HasKey(reg, TypeOf(value)) /\ IsConverter(Lookup(reg, TypeOf(value)))
    THEN Candidates(<<Lookup(reg, TypeOf(value))>>)
    ELSE Candidates(<<>>)

\* self._resolve_converters(value) of the stage at hand
resolve_converters(stage, reg, types, value) ==
    IF stage = "read"
    THEN ConvertDataFromReadStage_resolve_converters(reg, types, value)
    ELSE ConvertDataForWriteStage_resolve_converters(reg, types, value)

\* self._convert(converter, x): converter.read_value or converter.write_value
convert(stage, converter, cch, x) ==
    IF stage = "read"
    THEN IF converter = "ObjectConverter" THEN ObjectConverter_read_value(cch, x)
         ELSE DictConverter_read_value(cch, x)
    ELSE IF converter = "ObjectConverter" THEN ObjectConverter_write_value(cch, x)
         ELSE DictConverter_write_value(cch, x)

\* a mutant of TryConverters: a failing converter ends the search
RECURSIVE TryConvertersStopAtFailure(_, _, _, _)
TryConvertersStopAtFailure(stage, converters, cch, x) ==
    IF converters = <<>> THEN Returned(x, cch)
    ELSE LET res == convert(stage, Head(converters), cch, x)
         IN  IF res.raised = NoError THEN res ELSE Returned(x, cch)

\* for converter in ...: try: append(self._convert(converter, x)); break
\*                       except: continue
\* else: append(x)
RECURSIVE TryConverters(_, _, _, _)
TryConverters(stage, converters, cch, x) ==
    IF converters = <<>> THEN Returned(x, cch)
    ELSE LET res == convert(stage, Head(converters), cch, x)
         IN  IF res.raised = NoError THEN res
             ELSE TryConverters(stage, Tail(converters), cch, x)

\* the loops of ConvertDataStage.__call__ from cell j of row i on (1-based);
\* acc is the list `value` built so far, handed to _resolve_converters
RECURSIVE ConvertFrom(_, _, _, _, _, _, _, _)
ConvertFrom(stage, reg, types, grid, i, j, acc, cch) ==
    IF i > PyLen(grid) THEN [err |-> NoError, value |-> PyList(acc), cache |-> cch]
    ELSE IF j > PyLen(grid.v[i])
    THEN ConvertFrom(stage, reg, types, grid, i + 1, 1,
                     IF i < PyLen(grid) THEN Append(acc, PyList(<<>>)) ELSE acc, cch)
    ELSE LET resolved == resolve_converters(stage, reg, types, PyList(acc))
         IN  IF resolved.err # NoError
             THEN [err |-> resolved.err, value |-> grid, cache |-> cch]
             ELSE LET res == TryConverters(stage, resolved.list, cch, grid.v[i].v[j])
                  IN  ConvertFrom(stage, reg, types, grid, i, j + 1,
                          [acc EXCEPT ![i] = PyList(Append(acc[i].v, res.val))],
                          res.cache)

\* ConvertDataStage.__call__
ConvertDataStage(stage, reg, types, ctx) ==
    LET out == ConvertFrom(stage, reg, types, ctx.value, 1, 1,
                   IF PyLen(ctx.value) > 0 THEN <<PyList(<<>>)>> ELSE <<>>, ctx.cache)
    IN  [ctx EXCEPT !.value = out.value, !.err = out.err, !.cache = out.cache]

\* ConvertDataFromReadStage.__call__
ConvertDataFromReadStage(reg, types, ctx) == ConvertDataStage("read", reg, types, ctx)

\* ConvertDataForWriteStage.__call__
ConvertDataForWriteStage(reg, ctx) == ConvertDataStage("write", reg, NoOption, ctx)

----------------------------------------------------------------------------
(* The range, platform and expander collaborators *)

Max(a, b) == IF a > b THEN a ELSE b
Min(a, b) == IF a < b THEN a ELSE b

\* the worksheet is a square that holds every grid and its transpose
SheetSize == Max(MaxRows, MaxCols)
Coords == (0..SheetSize - 1) \X (0..SheetSize - 1)

\* what a worksheet cell holds
XlEmpty == [t |-> "empty", v |-> 0]
XlNumber(n) == [t |-> "number", v |-> n]
XlString(s) == [t |-> "string", v |-> s]

BlankSheet == [p \in Coords |-> XlEmpty]
NoWrites == [p \in Coords |-> 0]

\* a Range: its top-left cell and its shape; valid is its truth value
Range(row, col, rows, cols) ==
    [valid |-> TRUE, row |-> row, col |-> col, rows |-> rows, cols |-> cols]
NoRange == [valid |-> FALSE, row |-> 0, col |-> 0, rows |-> 0, cols |-> 0]
\* the single cell every pipeline of the model is anchored at
Anchor == Range(0, 0, 1, 1)

\* Range.resize(rows, cols)
Resize(rng, rows, cols) == [rng EXCEPT !.rows = rows, !.cols = cols]
\* Range[r0:r1, c0:c1], the bounds clamped to the shape as Python slices are
Slice(rng, r0, r1, c0, c1) ==
    LET a == Min(r0, rng.rows)
        b == Max(a, Min(r1, rng.rows))
        d == Min(c0, rng.cols)
        e == Max(d, Min(c1, rng.cols))
    IN  Range(rng.row + a, rng.col + d, b - a, e - d)
\* the cells of a range, as offsets from its top-left cell
Offsets(rng) == (0..rng.rows - 1) \X (0..rng.cols - 1)

\* Range.raw_value = value: a grid is assigned cell by cell, a scalar fills
\* the range
SetRawValue(ctx, rng, value) ==
    LET hit == IF IsList(value)
               THEN {o \in Offsets(rng) :
                        o[1] < PyLen(value) /\ o[2] < PyLen(Item(value, o[1]))}
               ELSE Offsets(rng)
        at(p) == <<p[1] - rng.row, p[2] - rng.col>>
    IN  [ctx EXCEPT
            !.sheet = [p \in Coords |->
                IF at(p) \in hit
                THEN IF IsList(value) THEN Item(Item(value, at(p)[1]), at(p)[2])
                     ELSE value
                ELSE ctx.sheet[p]],
            !.writes = [p \in Coords |->
                IF at(p) \in hit THEN ctx.writes[p] + 1 ELSE ctx.writes[p]]]

\* Range.raw_value: a single cell is a scalar, anything else a grid
GetRawValue(sht, rng) ==
    IF rng.rows = 1 /\ rng.cols = 1 THEN sht[<<rng.row, rng.col>>]
    ELSE PyList([i \in 1..rng.rows |->
            PyList([j \in 1..rng.cols |-> sht[<<rng.row + i - 1, rng.col + j - 1>>]])])

\* xlplatform.prepare_xl_data_element: a host value as the cell stores it
prepare_xl_data_element(x) ==
    IF x.t \in {"int", "float"} THEN XlNumber(x.v)
    ELSE IF x.t = "str" THEN XlString(x.v)
    ELSE IF x = PyNone THEN XlEmpty
    ELSE x

\* xlplatform.clean_value_data on one cell, with the default handlers: a
\* number is read as a float, an empty cell as empty_as
clean_value_data_element(x, empty_as) ==
    IF x.t = "number" THEN PyFloat(x.v)
    ELSE IF x.t = "string" THEN PyStr(x.v)
    ELSE IF x = XlEmpty THEN empty_as
    ELSE x

\* the run of non-empty cells from the top-left cell of rng, down (dr = 1) or
\* right (dc = 1); at least the cell itself
RECURSIVE RunLength(_, _, _, _, _)
RunLength(sht, rng, dr, dc, n) ==
    LET p == <<rng.row + n * dr, rng.col + n * dc>>
    IN  IF p \in Coords /\ sht[p] # XlEmpty
        THEN RunLength(sht, rng, dr, dc, n + 1)
        ELSE Max(n, 1)

\* Range.expand('table') and expander.expand: the table of contiguous
\* non-empty cells that starts at the top-left cell
Expand(sht, rng, mode) ==
    Resize(rng, RunLength(sht, rng, 1, 0, 0), RunLength(sht, rng, 0, 1, 0))

\* expander.clear(rng, skip, vshape): empties the cells of the expanded range
\* that lie outside the value's shape and outside the skipped top-left block
ExpanderClear(sht, rng, mode, skip, vshape) ==
    LET full == Expand(sht, rng, mode)
    IN  [p \in Coords |->
            LET o == <<p[1] - rng.row, p[2] - rng.col>>
            IN  IF /\ o \in Offsets(full)
                   /\ (o[1] >= vshape[1] \/ o[2] >= vshape[2])
                   /\ ~(o[1] < skip[1] /\ o[2] < skip[2])
                THEN XlEmpty
                ELSE sht[p]]

----------------------------------------------------------------------------
(* The stages that touch the range *)

\* lst[a:b]
PySlice(lst, a, b) == PyList(SubSeq(lst.v, Min(a, PyLen(lst)) + 1, Min(b, PyLen(lst))))

\* ExpandRangeStage.__call__
ExpandRangeStage(ctx, expand) ==
    IF ctx.range.valid /\ expand # PyNone
    THEN [ctx EXCEPT !.range = Expand(ctx.sheet, ctx.range, expand)]
    ELSE ctx

\* self.skip of ClearExpandedRangeStage: the option, or (0, 0) when it is None
ClearSkip(skip) == IF skip = PyNone THEN <<0, 0>> ELSE skip.v

\* a mutant of ClearExpandedRangeStage: vshape is given as (columns, rows)
ClearExpandedRangeStageSwapped(ctx, expand, skip) ==
    IF ctx.range.valid /\ expand # PyNone
    THEN LET vrows == PyLen(ctx.value)
             vcols == IF vrows = 0 THEN 0 ELSE PyLen(Item(ctx.value, 0))
         IN  [ctx EXCEPT
                 !.sheet = ExpanderClear(ctx.sheet, ctx.range, expand,
                                         ClearSkip(skip), <<vcols, vrows>>),
                 !.clears = Append(ctx.clears,
                     [range |-> ctx.range, skip |-> ClearSkip(skip),
                      vshape |-> <<vcols, vrows>>])]
    ELSE ctx

\* ClearExpandedRangeStage.__call__
ClearExpandedRangeStage(ctx, expand, skip) ==
    IF ctx.range.valid /\ expand # PyNone
    THEN LET vrows == PyLen(ctx.value)
             vcols == IF vrows = 0 THEN 0 ELSE PyLen(Item(ctx.value, 0))
         IN  [ctx EXCEPT
                 !.sheet = ExpanderClear(ctx.sheet, ctx.range, expand,
                                         ClearSkip(skip), <<vrows, vcols>>),
                 !.clears = Append(ctx.clears,
                     [range |-> ctx.range, skip |-> ClearSkip(skip),
                      vshape |-> <<vrows, vcols>>])]
    ELSE ctx

\* WriteValueToRangeStage._write_value
write_value(ctx, rng, value, scalar) ==
    IF rng.valid /\ Truthy(value)
    THEN IF scalar
         THEN SetRawValue(ctx, rng, Item(Item(value, 0), 0))
         ELSE SetRawValue(ctx, Resize(rng, PyLen(value), PyLen(Item(value, 0))), value)
    ELSE ctx

\* a mutant of WriteValueToRangeStage: the bulk region starts at the top row
WriteValueToRangeStageOverlap(ctx, skip, raw) ==
    IF ctx.range.valid /\ Truthy(ctx.value)
    THEN IF raw THEN SetRawValue(ctx, ctx.range, ctx.value)
         ELSE
         LET scalar == ctx.meta.scalar
             rng == IF scalar THEN ctx.range
                    ELSE Resize(ctx.range, PyLen(ctx.value), PyLen(Item(ctx.value, 0)))
             resized == [ctx EXCEPT !.range = rng]
         IN  IF skip # PyNone
             THEN LET r == skip.v[1]
                      cc == skip.v[2]
                      top == write_value(resized, Slice(rng, 0, r, cc, rng.cols),
                                 PyList([k \in 1..Min(r, PyLen(ctx.value)) |->
                                     PySlice(ctx.value.v[k], cc, PyLen(ctx.value.v[k]))]),
                                 FALSE)
                  IN  write_value(top, rng, ctx.value, FALSE)
             ELSE write_value(resized, rng, ctx.value, scalar)
    ELSE ctx

\* WriteValueToRangeStage.__call__, with self.skip = options.get('_skip_tl_cells')
WriteValueToRangeStage(ctx, skip, raw) ==
    IF ctx.range.valid /\ Truthy(ctx.value)
    THEN IF raw THEN SetRawValue(ctx, ctx.range, ctx.value)
         ELSE
         LET scalar == ctx.meta.scalar
             rng == IF scalar THEN ctx.range
                    ELSE Resize(ctx.range, PyLen(ctx.value), PyLen(Item(ctx.value, 0)))
             resized == [ctx EXCEPT !.range = rng]
         IN  IF skip # PyNone
             THEN LET r == skip.v[1]
                      cc == skip.v[2]
                  IN  IF scalar
                      THEN write_value(
                               write_value(resized, Slice(rng, 0, r, cc, rng.cols),
                                           ctx.value, TRUE),
                               Slice(rng, r, rng.rows, 0, rng.cols), ctx.value, TRUE)
                      ELSE write_value(
                               write_value(resized, Slice(rng, 0, r, cc, rng.cols),
                                   PyList([k \in 1..Min(r, PyLen(ctx.value)) |->
                                       PySlice(ctx.value.v[k], cc, PyLen(ctx.value.v[k]))]),
                                   FALSE),
                               Slice(rng, r, rng.rows, 0, rng.cols),
                               PySlice(ctx.value, r, PyLen(ctx.value)), FALSE)
             ELSE write_value(resized, rng, ctx.value, scalar)
    ELSE ctx

\* ReadValueFromRangeStage.__call__
ReadValueFromRangeStage(ctx) ==
    IF ctx.range.valid
    THEN [ctx EXCEPT !.value = GetRawValue(ctx.sheet, ctx.range)]
    ELSE ctx

\* CleanDataFromReadStage.__call__, with self.empty_as = options.get('empty', None)
CleanDataFromReadStage(ctx, empty_as) ==
    [ctx EXCEPT !.value =
        PyList([i \in 1..PyLen(ctx.value) |->
            PyList([j \in 1..PyLen(ctx.value.v[i]) |->
                clean_value_data_element(ctx.value.v[i].v[j], empty_as)])])]

\* CleanDataForWriteStage.__call__
CleanDataForWriteStage(ctx) ==
    [ctx EXCEPT !.value =
        PyList([i \in 1..PyLen(ctx.value) |->
            PyList([j \in 1..PyLen(ctx.value.v[i]) |->
                prepare_xl_data_element(ctx.value.v[i].v[j])])])]

----------------------------------------------------------------------------
(* Pipelines and accessors *)

\* the options of a call; NoOption and PyNone stand for an option left out
Options(expand, transpose, ndim, types, skip) ==
    [expand |-> expand, transpose |-> transpose, ndim |-> ndim,
     types |-> types, skip |-> skip]
DefaultOptions == Options(PyNone, FALSE, PyNone, NoOption, PyNone)

\* a fresh Context(range, value) over the worksheet and the object cache
NewContext(rng, value, sht, cch) ==
    [range |-> rng, value |-> value, meta |-> [scalar |-> FALSE],
     err |-> NoError, cache |-> cch, sheet |-> sht,
     writes |-> NoWrites, clears |-> <<>>, log |-> <<>>]

\* Pipeline.prepend_stage(stage, only_if): inserts at index 0
prepend_stage(pipeline, stage, only_if) ==
    IF only_if THEN <<stage>> \o pipeline ELSE pipeline
\* Pipeline.append_stage(stage, only_if): inserts at the end
append_stage(pipeline, stage, only_if) ==
    IF only_if THEN Append(pipeline, stage) ELSE pipeline

\* a mutant of ValueAccessor_writer: the clearing stage is prepended first,
\* so that it runs after the write
ValueAccessor_writer_clear_last(options) ==
    prepend_stage(
     prepend_stage(
      prepend_stage(
       prepend_stage(
        prepend_stage(
         prepend_stage(<<>>, "ClearExpandedRangeStage", options.expand # PyNone),
         "WriteValueToRangeStage", TRUE),
        "CleanDataForWriteStage", TRUE),
       "ConvertDataForWriteStage", TRUE),
      "TransposeStage", options.transpose),
     "Ensure2DStage", TRUE)

\* ValueAccessor.writer
ValueAccessor_writer(options) ==
    prepend_stage(
     prepend_stage(
      prepend_stage(
       prepend_stage(
        prepend_stage(
         prepend_stage(<<>>, "WriteValueToRangeStage", TRUE),
         "ClearExpandedRangeStage", options.expand # PyNone),
        "CleanDataForWriteStage", TRUE),
       "ConvertDataForWriteStage", TRUE),
      "TransposeStage", options.transpose),
     "Ensure2DStage", TRUE)

\* BaseAccessor.reader
BaseAccessor_reader(options) ==
    append_stage(<<>>, "ExpandRangeStage", options.expand # PyNone)

\* ValueAccessor.reader
ValueAccessor_reader(options) ==
    append_stage(
     append_stage(
      append_stage(
       append_stage(
        append_stage(
         append_stage(BaseAccessor_reader(options), "ReadValueFromRangeStage", TRUE),
         "Ensure2DStage", TRUE),
        "CleanDataFromReadStage", TRUE),
       "ConvertDataFromReadStage", TRUE),
      "TransposeStage", options.transpose),
     "AdjustDimensionsStage", TRUE)

\* Accessor.reader and Accessor.writer: an empty Pipeline
Accessor_reader(options) == <<>>
Accessor_writer(options) == <<>>

\* RangeAccessor.copy_range_to_value: c.value = c.range
copy_range_to_value(ctx) == [ctx EXCEPT !.value = [t |-> "Range", v |-> ctx.range]]

\* RangeAccessor.reader
RangeAccessor_reader(options) ==
    append_stage(BaseAccessor_reader(options), "copy_range_to_value", TRUE)

\* RawValueAccessor.reader
RawValueAccessor_reader(options) ==
    append_stage(Accessor_reader(options), "ReadValueFromRangeStage", TRUE)

\* RawValueAccessor.writer
RawValueAccessor_writer(options) ==
    prepend_stage(Accessor_writer(options), "WriteValueToRangeStage(raw=True)", TRUE)

\* Options(options).override(ndim=2)
override_ndim(options, ndim) == [options EXCEPT !.ndim = ndim]
\* Converter.base_reader(options): the reader of ValueAccessor
Converter_base_reader(options) == ValueAccessor_reader(options)
\* DictConverter.base_reader: the ndim option is forced to 2
DictConverter_base_reader(options) ==
    Converter_base_reader(override_ndim(options, PyInt(2)))

\* the call of one stage, built from the options as its constructor does
RunStage(stage, options, reg, ctx) ==
    CASE stage = "Ensure2DStage" -> Ensure2DStage(ctx)
      [] stage = "TransposeStage" -> TransposeStage(ctx)
      [] stage = "AdjustDimensionsStage" -> AdjustDimensionsStage(ctx, options.ndim)
      [] stage = "ConvertDataForWriteStage" -> ConvertDataForWriteStage(reg, ctx)
      [] stage = "ConvertDataFromReadStage" ->
             ConvertDataFromReadStage(reg, options.types, ctx)
      [] stage = "CleanDataForWriteStage" -> CleanDataForWriteStage(ctx)
      [] stage = "CleanDataFromReadStage" -> CleanDataFromReadStage(ctx, PyNone)
      [] stage = "ClearExpandedRangeStage" ->
             ClearExpandedRangeStage(ctx, options.expand, options.skip)
      [] stage = "WriteValueToRangeStage" ->
             WriteValueToRangeStage(ctx, options.skip, FALSE)
      [] stage = "WriteValueToRangeStage(raw=True)" ->
             WriteValueToRangeStage(ctx, options.skip, TRUE)
      [] stage = "copy_range_to_value" -> copy_range_to_value(ctx)
      [] stage = "ReadValueFromRangeStage" -> ReadValueFromRangeStage(ctx)
      [] stage = "ExpandRangeStage" -> ExpandRangeStage(ctx, options.expand)

\* Pipeline.__call__: the stages in list order; a stage that raises ends the run
RECURSIVE Execute(_, _, _, _)
Execute(pipeline, options, reg, ctx) ==
    IF pipeline = <<>> \/ ctx.err # NoError THEN ctx
    ELSE Execute(Tail(pipeline), options, reg,
                 RunStage(Head(pipeline), options, reg,
                          [ctx EXCEPT !.log = Append(ctx.log, Head(pipeline))]))

----------------------------------------------------------------------------
(* Inputs of the model *)

\* cell values are coded by generation and position, so that a cell that is
\* moved, dropped or left over from an earlier write is told apart
RowStride == MaxCols + 1
GenStride == (MaxRows + 1) * RowStride
CellAt(gen, i, j) == PyInt(gen * GenStride + i * RowStride + j + 1)

\* a row of n cells; with a hole, its second cell is None
RowOf(gen, i, n, hole) ==
    PyList([j \in 1..n |-> IF hole /\ j = 2 THEN PyNone ELSE CellAt(gen, i, j - 1)])
\* a grid of m rows of n cells
GridOf(gen, m, n, hole) == PyList([i \in 1..m |-> RowOf(gen, i - 1, n, hole /\ i = 1)])

\* the operation record of a state: the last operation, its options, what the
\* context, the worksheet and the cache were when it began, and its input
Operation(name, options, start, orig, steps) ==
    [name |-> name, opts |-> options,
     start |-> [range |-> start.range, value |-> start.value,
                sheet |-> start.sheet, cache |-> start.cache],
     orig |-> orig, steps |-> steps]

----------------------------------------------------------------------------
(* The shape stages, applied one at a time to the values a caller can pass *)

EmptyCache == [k \in {} |-> PyNone]

\* a scalar, the flat sequences and the nested grids, the empty list and the
\* grids of empty rows among them
Values(gen) ==
    {CellAt(gen, 0, 0), PyNone}
    \cup {RowOf(gen, 0, n, h) : n \in 0..MaxCols, h \in BOOLEAN}
    \cup {GridOf(gen, m, n, h) : m \in 1..MaxRows, n \in 0..MaxCols, h \in BOOLEAN}
ShapeInputs == Values(0)

\* the values of the ndim option the model tries
NdimValues == {PyNone, PyInt(0), PyInt(1), PyInt(2), PyInt(3)}

InitShape ==
    /\ accessors = InitialAccessors
    /\ cache = EmptyCache
    /\ written = <<>>
    /\ sheet = BlankSheet
    /\ \E value \in ShapeInputs :
          /\ c = NewContext(NoRange, value, BlankSheet, EmptyCache)
          /\ op = Operation("init", DefaultOptions,
                            NewContext(NoRange, value, BlankSheet, EmptyCache), value, 0)

\* Ensure2DStage on the value the caller passed
Ensure2D ==
    /\ op.name = "init"
    /\ c' = Ensure2DStage(c)
    /\ op' = Operation("Ensure2D", op.opts, c, c'.value, 0)
    /\ UNCHANGED <<accessors, cache, written, sheet>>

\* TransposeStage on a 2D value, at most MaxSteps times in a row
Transpose ==
    /\ op.name \in {"Ensure2D", "Transpose"}
    /\ op.steps < MaxSteps
    /\ c' = TransposeStage(c)
    /\ op' = Operation("Transpose", op.opts, c, op.orig, op.steps + 1)
    /\ UNCHANGED <<accessors, cache, written, sheet>>

\* AdjustDimensionsStage on a 2D value
AdjustDimensions(ndim) ==
    /\ op.name \in {"Ensure2D", "Transpose"}
    /\ c' = AdjustDimensionsStage(c, ndim)
    /\ op' = Operation("AdjustDimensions", [op.opts EXCEPT !.ndim = ndim],
                       c, op.orig, op.steps)
    /\ UNCHANGED <<accessors, cache, written, sheet>>

NextShape ==
    \/ Ensure2D
    \/ Transpose
    \/ \E ndim \in NdimValues : AdjustDimensions(ndim)

SpecShape == InitShape /\ [][NextShape]_vars

\* the shape of a 2D value
NRows(g) == PyLen(g)
NCols(g) == IF PyLen(g) = 0 THEN 0 ELSE PyLen(Item(g, 0))
\* the cells of a 1-by-n or n-by-1 grid, in order
FlatOf(g) ==
    IF NRows(g) = 1 THEN Item(g, 0)
    ELSE PyList([k \in 1..NRows(g) |-> Item(Item(g, k - 1), 0)])

\* C5: AdjustDimensionsStage on an M-by-N grid (M, N >= 1).  With ndim absent
\* a 1-by-1 grid becomes its cell, a 1-by-N or N-by-1 grid the flat sequence
\* of its cells in order, any other grid is unchanged; with ndim = 1 a 1-by-N
\* or N-by-1 grid becomes flat and any other grid raises Exception; with
\* ndim = 2 the grid is unchanged; any other ndim raises ValueError; and a
\* stage that raises leaves the value as it was.
C5_AdjustDimensions ==
    (op.name = "AdjustDimensions" /\ NRows(op.start.value) >= 1
        /\ NCols(op.start.value) >= 1) =>
    LET g == op.start.value
        m == NRows(g)
        n == NCols(g)
        ndim == op.opts.ndim
    IN  /\ (ndim = PyNone /\ m = 1 /\ n = 1) =>
              (c.err = NoError /\ c.value = Item(Item(g, 0), 0))
        /\ (ndim = PyNone /\ (m = 1 \/ n = 1) /\ ~(m = 1 /\ n = 1)) =>
              (c.err = NoError /\ c.value = FlatOf(g)
               /\ PyLen(c.value) = Max(m, n))
        /\ (ndim = PyNone /\ m > 1 /\ n > 1) => (c.err = NoError /\ c.value = g)
        /\ (ndim = PyInt(1) /\ (m = 1 \/ n = 1)) =>
              (c.err = NoError /\ c.value = FlatOf(g) /\ IsList(c.value)
               /\ PyLen(c.value) = Max(m, n))
        /\ (ndim = PyInt(1) /\ m > 1 /\ n > 1) =>
              (c.err = "Exception" /\ c.value = g)
        /\ (ndim = PyInt(2)) => (c.err = NoError /\ c.value = g)
        /\ (ndim \notin {PyNone, PyInt(1), PyInt(2)}) =>
              (c.err = "ValueError" /\ c.value = g)
        /\ (c.err # NoError) => c.value = g

\* C5 witness: ndim = 1 on a grid of several rows and columns raised and left
\* the value as it was
C5_Witness ==
    /\ op.name = "AdjustDimensions"
    /\ NRows(op.start.value) > 1
    /\ NCols(op.start.value) > 1
    /\ op.opts.ndim = PyInt(1)
    /\ c.err = "Exception"
    /\ c.value = op.start.value

\* C8 as stated: two applications of TransposeStage return the original grid,
\* for every grid the pipelines can pass to it.
C8_TransposeTwice_Original ==
    (op.name = "Transpose" /\ op.steps = 2) => c.value = op.orig

\* C8, amended: two applications return the original grid when it is the
\* empty grid or its rows have at least one column; a grid of M >= 1 rows of
\* zero columns becomes the empty grid at the first application and stays
\* it.  One application maps an M-by-N grid (M, N >= 1) to the N-by-M grid
\* with cell (i, j) moved to (j, i).
C8_TransposeTwice ==
    /\ (op.name = "Transpose" /\ op.steps = 2
            /\ (NRows(op.orig) = 0 \/ NCols(op.orig) >= 1)) => c.value = op.orig
    /\ (op.name = "Transpose" /\ op.steps = 2
            /\ NRows(op.orig) >= 1 /\ NCols(op.orig) = 0) => c.value = PyList(<<>>)
    /\ (op.name = "Transpose" /\ NCols(op.start.value) = 0) => c.value = PyList(<<>>)
    /\ (op.name = "Transpose" /\ NCols(op.start.value) >= 1) =>
          /\ NRows(c.value) = NCols(op.start.value)
          /\ \A j \in 0..NRows(c.value) - 1 :
                /\ PyLen(Item(c.value, j)) = NRows(op.start.value)
                /\ \A i \in 0..NRows(op.start.value) - 1 :
                      Item(Item(c.value, j), i) = Item(Item(op.start.value, i), j)

\* C8 witness: a grid of two rows and three columns came back after two
\* applications, having been three rows of two columns in between
C8_Witness ==
    /\ op.name = "Transpose" /\ op.steps = 2
    /\ NRows(op.orig) = 2 /\ NCols(op.orig) = 3
    /\ NRows(op.start.value) = 3 /\ NCols(op.start.value) = 2
    /\ c.value = op.orig

----------------------------------------------------------------------------
(* The object cache, through direct calls of ObjectConverter *)

KeyValuePair(key, value) == [t |-> "KeyValuePair", key |-> key, value |-> value]
Object(n) == [t |-> "object", v |-> n]

\* the handles and objects the model uses
CacheKeys == {PyStr(""), PyStr("id1"), PyInt(7), PyFloat(7)}
CacheValues == {Object(1), Object(2)}
\* what write_value is called with: pairs, and values that are no pair
WriteArgs ==
    {KeyValuePair(k, v) : k \in CacheKeys, v \in CacheValues}
    \cup {PyNone, PyFloat(1), Object(1)}

InitCache ==
    /\ accessors = InitialAccessors
    /\ cache = EmptyCache
    /\ written = <<>>
    /\ sheet = BlankSheet
    /\ c = NewContext(NoRange, PyNone, BlankSheet, EmptyCache)
    /\ op = Operation("init", DefaultOptions,
                      NewContext(NoRange, PyNone, BlankSheet, EmptyCache), PyNone, 0)

\* the context that shows the outcome of a direct call
CallOutcome(res) ==
    [NewContext(NoRange, res.val, BlankSheet, res.cache) EXCEPT !.err = res.raised]

\* ObjectConverter.read_value(value, options)
read_value(value) ==
    /\ c' = CallOutcome(ObjectConverter_read_value(cache, value))
    /\ cache' = c'.cache
    /\ op' = Operation("read_value", op.opts,
                       NewContext(NoRange, value, BlankSheet, cache), value, op.steps)
    /\ UNCHANGED <<accessors, written, sheet>>

\* ObjectConverter.write_value(key_val, options); the history records the
\* pair of a call that returned
ObjectWrite(key_val) ==
    /\ Len(written) < MaxWrites
    /\ c' = CallOutcome(ObjectConverter_write_value(cache, key_val))
    /\ cache' = c'.cache
    /\ written' = IF c'.err = NoError
                  THEN Append(written, <<key_val.key, key_val.value>>)
                  ELSE written
    /\ op' = Operation("write_value", op.opts,
                       NewContext(NoRange, key_val, BlankSheet, cache), key_val,
                       op.steps)
    /\ UNCHANGED <<accessors, sheet>>

NextCache ==
    \/ \E value \in CacheKeys : read_value(value)
    \/ \E key_val \in WriteArgs : ObjectWrite(key_val)

SpecCache == InitCache /\ [][NextCache]_vars

\* the positions of the history that wrote under key k
WritesUnder(k) == {n \in 1..Len(written) : KeyEq(written[n][1], k)}
LastWriteUnder(k) ==
    written[CHOOSE n \in WritesUnder(k) : \A q \in WritesUnder(k) : q <= n][2]

\* C7: read_value(k) raises KeyError exactly when no write_value under k has
\* returned so far, and otherwise returns the value of the latest such write;
\* write_value of a KeyValuePair stores the value under the key and returns
\* the key; write_value of anything else raises TypeError and leaves the
\* cache as it was; read_value leaves the cache as it was; no entry is ever
\* removed.  Handles are hashable and "under k" is under a key equal to k as
\* the dict compares keys (7 and 7.0 are one key, kept in its first spelling).
C7_CacheSemantics ==
    /\ (op.name = "read_value") =>
          /\ (c.err = "KeyError") <=> (WritesUnder(op.orig) = {})
          /\ (WritesUnder(op.orig) # {}) =>
                (c.err = NoError /\ c.value = LastWriteUnder(op.orig))
          /\ cache = op.start.cache
    /\ (op.name = "write_value" /\ op.orig.t = "KeyValuePair") =>
          /\ c.err = NoError
          /\ c.value = op.orig.key
          /\ InCache(cache, op.orig.key)
          /\ CacheGet(cache, op.orig.key) = op.orig.value
          /\ \A k \in DOMAIN op.start.cache :
                ~KeyEq(k, op.orig.key) => cache[k] = op.start.cache[k]
    /\ (op.name = "write_value" /\ op.orig.t # "KeyValuePair") =>
          (c.err = "TypeError" /\ cache = op.start.cache)
    /\ (op.name \in {"read_value", "write_value"}) =>
          DOMAIN op.start.cache \subseteq DOMAIN cache
    /\ \A k \in CacheKeys : InCache(cache, k) <=> (WritesUnder(k) # {})
    /\ \A k, q \in DOMAIN cache : KeyEq(k, q) => k = q

\* C7 witness: a handle written twice, with different objects and once in
\* another spelling (7 and 7.0), was read back as the later object while
\* another handle was never written
C7_Witness ==
    /\ op.name = "read_value"
    /\ \E n \in WritesUnder(op.orig) : written[n][1] # op.orig
    /\ Cardinality(WritesUnder(op.orig)) >= 2
    /\ \E n \in WritesUnder(op.orig) : written[n][2] # c.value
    /\ c.value = LastWriteUnder(op.orig)
    /\ \E k \in CacheKeys : ~InCache(cache, k)

----------------------------------------------------------------------------
(* The conversion stages over the registry *)

Dict(items) == [t |-> "dict", v |-> items]

\* the raw cells a read hands to the stage, and the host cells of a write
ReadCells == <<PyStr(""), PyFloat(1), PyStr("id1"), PyNone,
               PyList(<<PyList(<<PyStr("a"), PyFloat(1)>>)>>)>>
WriteCells == <<Dict(<<<<PyStr("a"), PyInt(1)>>>>), PyFloat(1),
                KeyValuePair(PyStr("id1"), Object(1)), Object(2)>>

\* a grid of m rows of n cells that cycles through pool from offset off
CycleGrid(pool, m, n, off) ==
    PyList([i \in 1..m |-> PyList([j \in 1..n |->
        pool[(((i - 1) * n + (j - 1) + off) % Len(pool)) + 1]])])
CycleGrids(pool) ==
    {CycleGrid(pool, m, n, off) :
        m \in 0..MaxRows, n \in 0..MaxCols, off \in 0..Len(pool) - 1}

\* the values of the types option the model tries
TypesValues ==
    {NoOption, PyStr("all"), PyStr("raw"), TypeKey("dict"), TypeKey("object"),
     TypeKey("Range"), TypeKey("KeyValuePair"),
     PyList(<<TypeKey("dict"), TypeKey("object")>>),
     PyList(<<TypeKey("object"), TypeKey("dict")>>),
     PyList(<<TypeKey("Range"), PyNone, TypeKey("float")>>)}

\* the keys a caller registers ObjectConverter under
RegisterKeys == {TypeKey("list"), TypeKey("KeyValuePair")}

\* the caches the earlier write_value calls of a history leave
Histories ==
    {<<>>, <<<<PyStr("id1"), Object(1)>>>>,
     <<<<PyStr(""), Object(2)>>, <<PyStr("id1"), Object(1)>>>>,
     <<<<PyInt(1), Object(2)>>>>}
RECURSIVE CacheAfter(_)
CacheAfter(history) ==
    IF history = <<>> THEN EmptyCache
    ELSE Store(CacheAfter(SubSeq(history, 1, Len(history) - 1)),
               history[Len(history)][1], history[Len(history)][2])

InitConv ==
    /\ accessors = InitialAccessors
    /\ sheet = BlankSheet
    /\ \E history \in Histories :
          /\ written = history
          /\ cache = CacheAfter(history)
          /\ c = NewContext(NoRange, PyNone, BlankSheet, CacheAfter(history))
          /\ op = Operation("init", DefaultOptions,
                    NewContext(NoRange, PyNone, BlankSheet, CacheAfter(history)),
                    PyNone, 0)

\* no stage call is under way: the context of the last call is gone
Idle == op.name \in {"init", "register"}

\* accessors.register(key, ObjectConverter)
Register(key) ==
    /\ Idle
    /\ accessors' = RegisterAccessor(accessors, key, "ObjectConverter")
    /\ op' = Operation("register", op.opts, c, key, 0)
    /\ UNCHANGED <<cache, written, sheet, c>>

\* the caller drops the context of a finished call; the registry and the
\* cache live on
Discard ==
    /\ ~Idle
    /\ c' = NewContext(NoRange, PyNone, BlankSheet, cache)
    /\ op' = Operation("init", DefaultOptions,
                       NewContext(NoRange, PyNone, BlankSheet, cache), PyNone, 0)
    /\ UNCHANGED <<accessors, cache, written, sheet>>

\* ConvertDataFromReadStage(options)(c)
ConvertDataFromRead(grid, types) ==
    LET start == NewContext(NoRange, grid, BlankSheet, cache)
    IN  /\ Idle
        /\ c' = ConvertDataFromReadStage(accessors, types, start)
        /\ cache' = c'.cache
        /\ op' = Operation("ConvertDataFromRead",
                           [DefaultOptions EXCEPT !.types = types], start, grid, 0)
        /\ UNCHANGED <<accessors, written, sheet>>

\* ConvertDataForWriteStage(options)(c)
ConvertDataForWrite(grid) ==
    LET start == NewContext(NoRange, grid, BlankSheet, cache)
    IN  /\ Idle
        /\ c' = ConvertDataForWriteStage(accessors, start)
        /\ cache' = c'.cache
        /\ op' = Operation("ConvertDataForWrite", DefaultOptions, start, grid, 0)
        /\ UNCHANGED <<accessors, written, sheet>>

NextConv ==
    \/ \E key \in RegisterKeys : Register(key)
    \/ Discard
    \/ \E grid \in CycleGrids(ReadCells), types \in TypesValues :
          ConvertDataFromRead(grid, types)
    \/ \E grid \in CycleGrids(WriteCells) : ConvertDataForWrite(grid)

SpecConv == InitConv /\ [][NextConv]_vars

\* the cells of a grid, as 0-based <<row, column>>
CellsOf(g) == {p \in (0..NRows(g) - 1) \X (0..MaxCols + 1) : p[2] < PyLen(Item(g, p[1]))}
Cell(g, p) == Item(Item(g, p[1]), p[2])
\* two grids have the same number of rows and of cells in each row
SameShape(g, h) ==
    /\ NRows(g) = NRows(h)
    /\ \A i \in 0..NRows(g) - 1 : PyLen(Item(g, i)) = PyLen(Item(h, i))

\* C1 as stated: with types = "all", over the registry the modules build
\* (dict, registered to DictConverter, is a subtype of object, registered to
\* ObjectConverter, beside the keys None and 'raw' and the Range accessor),
\* the stage completes and a cell that DictConverter accepts comes out as
\* DictConverter's reading of it, not ObjectConverter's.
C1_MostSpecificFirst ==
    (op.name = "ConvertDataFromRead" /\ op.opts.types = PyStr("all")) =>
        /\ c.err = NoError
        /\ SameShape(c.value, op.orig)
        /\ \A p \in CellsOf(op.orig) :
              DictConverter_read_value(cache, Cell(op.orig, p)).raised = NoError =>
                  Cell(c.value, p) = DictConverter_read_value(cache, Cell(op.orig, p)).val

\* C2 as stated: on a write every cell whose exact type is registered to a
\* Converter comes out as that converter's write_value of the cell, and
\* every other cell comes out unchanged.
C2_WriteByCellType ==
    (op.name = "ConvertDataForWrite") =>
        /\ c.err = NoError
        /\ SameShape(c.value, op.orig)
        /\ \A p \in CellsOf(op.orig) :
              LET x == Cell(op.orig, p)
                  registered == HasKey(accessors, TypeOf(x))
                                /\ IsConverter(Lookup(accessors, TypeOf(x)))
                  res == convert("write", Lookup(accessors, TypeOf(x)),
                                 op.start.cache, x)
              IN  /\ (registered /\ res.raised = NoError) => Cell(c.value, p) = res.val
                  /\ ~registered => Cell(c.value, p) = x

\* the candidates the stage of the state resolved for its cells
CandidatesOfRead ==
    ConvertDataFromReadStage_resolve_converters(accessors, op.opts.types, PyNone)
\* the types the option names
NamedTypes ==
    IF IsList(op.opts.types) THEN {op.opts.types.v[k] : k \in 1..PyLen(op.opts.types)}
    ELSE {op.opts.types}
\* the positions of the candidates whose read_value of x returns
Accepting(cands, x) ==
    {k \in 1..Len(cands) : convert("read", cands[k], op.start.cache, x).raised = NoError}
\* first success wins, else the raw cell
FirstSuccess(cands, x) ==
    IF Accepting(cands, x) = {} THEN x
    ELSE convert("read",
                 cands[CHOOSE k \in Accepting(cands, x) :
                          \A q \in Accepting(cands, x) : k <= q],
                 op.start.cache, x).val

\* C3: on a read, whenever a candidate list is built from the types option,
\* every output cell is read_value of the first candidate that does not
\* raise, and the raw cell if all raise or the list is empty; the list is
\* empty when types is absent or names no registered Converter; the grid
\* keeps its shape and the cache is untouched; no failure of a converter
\* reaches the caller (the one error that does is raised while the list is
\* built, and then the value is left as it was).
C3_FirstSuccessWins ==
    (op.name = "ConvertDataFromRead") =>
        /\ (CandidatesOfRead.err = NoError) =>
              /\ c.err = NoError
              /\ SameShape(c.value, op.orig)
              /\ \A p \in CellsOf(op.orig) :
                    Cell(c.value, p) = FirstSuccess(CandidatesOfRead.list, Cell(op.orig, p))
        /\ (op.opts.types = NoOption) => CandidatesOfRead.list = <<>>
        /\ (op.opts.types \notin {NoOption, PyStr("all")}
               /\ \A ty \in NamedTypes :
                     ~(HasKey(accessors, ty) /\ IsConverter(Lookup(accessors, ty)))) =>
              (CandidatesOfRead.list = <<>> /\ c.value = op.orig)
        /\ (c.err # NoError) =>
              (CandidatesOfRead.err = c.err /\ c.value = op.orig)
        /\ cache = op.start.cache

\* C3 witness: with two candidates, a cell the first refused was read by the
\* second, another cell was read by the first, and a cell both refused was
\* kept raw
C3_Witness ==
    /\ op.name = "ConvertDataFromRead"
    /\ Len(CandidatesOfRead.list) = 2
    /\ c.err = NoError
    /\ \E p \in CellsOf(op.orig) :
          /\ Accepting(CandidatesOfRead.list, Cell(op.orig, p)) = {2}
          /\ Cell(c.value, p) # Cell(op.orig, p)
    /\ \E p \in CellsOf(op.orig) :
          1 \in Accepting(CandidatesOfRead.list, Cell(op.orig, p))
    /\ \E p \in CellsOf(op.orig) :
          /\ Accepting(CandidatesOfRead.list, Cell(op.orig, p)) = {}
          /\ Cell(c.value, p) = Cell(op.orig, p)

----------------------------------------------------------------------------
(* ValueAccessor: the writer and the reader pipelines on the worksheet *)

Tuple(a, b) == [t |-> "tuple", v |-> <<a, b>>]
Table == PyStr("table")

\* a worksheet an earlier write of generation 0 filled
OldSheet == [p \in Coords |-> XlNumber(CellAt(0, p[1], p[2]).v)]

\* the option sets of a single write: every expand, transpose and
\* _skip_tl_cells
WriteOptions ==
    {Options(e, tr, PyNone, NoOption, sk) :
        e \in {PyNone, Table}, tr \in BOOLEAN,
        sk \in {PyNone} \cup {Tuple(r, cc) : r \in 0..MaxRows, cc \in 0..MaxCols}}

InitWrite ==
    /\ accessors = InitialAccessors
    /\ cache = EmptyCache
    /\ written = <<>>
    /\ sheet \in {BlankSheet, OldSheet}
    /\ c = NewContext(Anchor, PyNone, sheet, EmptyCache)
    /\ \E options \in WriteOptions :
          op = Operation("init", options, NewContext(Anchor, PyNone, sheet, EmptyCache),
                         PyNone, 0)

\* ValueAccessor.writer(options) run on Context(Anchor, value)
ValueAccessorWrite(value, gen) ==
    LET start == NewContext(Anchor, value, sheet, cache)
        done == Execute(ValueAccessor_writer(op.opts), op.opts, accessors, start)
    IN  /\ c' = done
        /\ sheet' = c'.sheet
        /\ cache' = c'.cache
        /\ op' = Operation("write", op.opts, start, value, gen)
        /\ UNCHANGED <<accessors, written>>

\* ValueAccessor.reader(options) run on the range the writer left
ValueAccessorRead ==
    LET start == NewContext(c.range, PyNone, sheet, cache)
        done == Execute(ValueAccessor_reader(op.opts), op.opts, accessors, start)
    IN  /\ op.name = "write"
        /\ c' = done
        /\ sheet' = c'.sheet
        /\ cache' = c'.cache
        /\ op' = Operation("read", op.opts, start, op.orig, op.steps)
        /\ UNCHANGED <<accessors, written>>

\* one write of a value of generation 1
WriteOnce == op.name = "init" /\ \E value \in Values(1) : ValueAccessorWrite(value, 1)

\* the values a caller hands to the raw writer: scalars, the false ones
\* among them, and grids
RawValues ==
    {PyNone, PyInt(0), PyFloat(0), PyStr(""), PyStr("id1"), CellAt(1, 0, 0),
     PyList(<<>>), GridOf(1, 1, 1, FALSE), GridOf(1, 2, 2, FALSE)}

\* a range has been written to and not read yet
Written == op.name \in {"write", "raw_write"}

\* RawValueAccessor.writer(options) run on Context(Anchor, value)
RawValueAccessorWrite(value) ==
    LET start == NewContext(Anchor, value, sheet, cache)
    IN  /\ op.name = "init"
        /\ c' = Execute(RawValueAccessor_writer(op.opts), op.opts, accessors, start)
        /\ sheet' = c'.sheet
        /\ cache' = c'.cache
        /\ op' = Operation("raw_write", op.opts, start, value, 1)
        /\ UNCHANGED <<accessors, written>>

\* RawValueAccessor.reader(options) run on the range the writer left
RawValueAccessorRead ==
    LET start == NewContext(c.range, PyNone, sheet, cache)
    IN  /\ Written
        /\ c' = Execute(RawValueAccessor_reader(op.opts), op.opts, accessors, start)
        /\ sheet' = c'.sheet
        /\ cache' = c'.cache
        /\ op' = Operation("raw_read", op.opts, start, op.orig, op.steps)
        /\ UNCHANGED <<accessors, written>>

\* RangeAccessor.reader(options) run on the range the writer left
RangeAccessorRead ==
    LET start == NewContext(c.range, PyNone, sheet, cache)
    IN  /\ Written
        /\ c' = Execute(RangeAccessor_reader(op.opts), op.opts, accessors, start)
        /\ sheet' = c'.sheet
        /\ cache' = c'.cache
        /\ op' = Operation("range_read", op.opts, start, op.orig, op.steps)
        /\ UNCHANGED <<accessors, written>>

\* DictConverter.base_reader(options) run on the range the writer left
DictConverterBaseRead ==
    LET start == NewContext(c.range, PyNone, sheet, cache)
    IN  /\ op.name = "write"
        /\ c' = Execute(DictConverter_base_reader(op.opts),
                        override_ndim(op.opts, PyInt(2)), accessors, start)
        /\ sheet' = c'.sheet
        /\ cache' = c'.cache
        /\ op' = Operation("base_read", op.opts, start, op.orig, op.steps)
        /\ UNCHANGED <<accessors, written>>

NextWrite ==
    \/ WriteOnce
    \/ ValueAccessorRead
    \/ \E value \in RawValues : RawValueAccessorWrite(value)
    \/ RawValueAccessorRead
    \/ RangeAccessorRead
    \/ DictConverterBaseRead

SpecWrite == InitWrite /\ [][NextWrite]_vars

\* the option sets of the writes under expand
ExpandOptions ==
    {Options(Table, tr, PyNone, NoOption, sk) :
        tr \in BOOLEAN, sk \in {PyNone, Tuple(0, 0), Tuple(1, 1)}}

\* a worksheet whose top-left cell holds a header and nothing else
HeaderSheet == [p \in Coords |-> IF p = <<0, 0>> THEN XlString("header") ELSE XlEmpty]

\* the worksheet is blank, or holds the header that _skip_tl_cells protects
InitExpand ==
    /\ accessors = InitialAccessors
    /\ cache = EmptyCache
    /\ written = <<>>
    /\ \E options \in ExpandOptions :
          /\ sheet = IF options.skip = Tuple(1, 1) THEN HeaderSheet ELSE BlankSheet
          /\ c = NewContext(Anchor, PyNone, sheet, EmptyCache)
          /\ op = Operation("init", options,
                            NewContext(Anchor, PyNone, sheet, EmptyCache), PyNone, 0)

\* the values written under expand: the longest row may have a hole
ExpandValues(gen) ==
    {CellAt(gen, 0, 0), PyNone, RowOf(gen, 0, MaxCols, TRUE)}
    \cup {RowOf(gen, 0, n, FALSE) : n \in 0..MaxCols}
    \cup {GridOf(gen, m, n, FALSE) : m \in 1..MaxRows, n \in 0..MaxCols}

\* a further write to the same anchor under the same options; generations
\* alternate, so that the cells of the write before are told apart
WriteAgain ==
    \E value \in ExpandValues(1 - op.steps) : ValueAccessorWrite(value, 1 - op.steps)

NextExpand == WriteAgain

SpecExpand == InitExpand /\ [][NextExpand]_vars

\* the position of a stage in the log of the run, 0 if it did not run
Position(stage) ==
    IF \E k \in 1..Len(c.log) : c.log[k] = stage
    THEN CHOOSE k \in 1..Len(c.log) : c.log[k] = stage
    ELSE 0
RanOnce(stage) == Cardinality({k \in 1..Len(c.log) : c.log[k] = stage}) = 1

\* C10 as stated: under expand the clearing stage runs after the write.
C10_ClearAfterWrite ==
    (op.name = "write" /\ op.opts.expand # PyNone) =>
        /\ RanOnce("ClearExpandedRangeStage")
        /\ RanOnce("WriteValueToRangeStage")
        /\ Position("WriteValueToRangeStage") < Position("ClearExpandedRangeStage")

\* C10, amended: under expand the clearing stage runs BEFORE the value is
\* written (it is prepended after the write stage, hence placed in front of
\* it) and sees the range as the caller gave it; both run after Ensure2D,
\* Transpose (when enabled), ConvertDataForWrite and CleanDataForWrite;
\* without expand the clearing stage is not in the pipeline.
C10_ClearBeforeWrite ==
    (op.name = "write") =>
        /\ c.err = NoError
        /\ RanOnce("Ensure2DStage") /\ RanOnce("ConvertDataForWriteStage")
        /\ RanOnce("CleanDataForWriteStage") /\ RanOnce("WriteValueToRangeStage")
        /\ RanOnce("TransposeStage") <=> op.opts.transpose
        /\ (~op.opts.transpose) => Position("TransposeStage") = 0
        /\ Position("Ensure2DStage") = 1
        /\ Position("TransposeStage") < Position("ConvertDataForWriteStage")
        /\ Position("ConvertDataForWriteStage") < Position("CleanDataForWriteStage")
        /\ Position("CleanDataForWriteStage") < Position("WriteValueToRangeStage")
        /\ Position("WriteValueToRangeStage") = Len(c.log)
        /\ (op.opts.expand # PyNone) =>
              /\ RanOnce("ClearExpandedRangeStage")
              /\ Position("CleanDataForWriteStage") < Position("ClearExpandedRangeStage")
              /\ Position("ClearExpandedRangeStage") < Position("WriteValueToRangeStage")
              /\ Len(c.clears) = 1
              /\ c.clears[1].range = Anchor
        /\ (op.opts.expand = PyNone) =>
              (Position("ClearExpandedRangeStage") = 0 /\ c.clears = <<>>)

\* C10 witness: a write under expand and transpose ran all six stages, the
\* clearing fifth and the write sixth, and the write resized the range
C10_Witness ==
    /\ op.name = "write"
    /\ op.opts.expand = Table /\ op.opts.transpose
    /\ Len(c.log) = 6
    /\ c.log[5] = "ClearExpandedRangeStage"
    /\ c.log[6] = "WriteValueToRangeStage"
    /\ c.range # Anchor

\* C9: WriteValueToRangeStage on a non-scalar grid of M rows and N columns.
\* With _skip_tl_cells = (r, c), 0 <= r <= M and 0 <= c <= N, no cell of the
\* block of the first r rows and c columns is written (it holds what it held)
\* and every other cell (i, j) of the M-by-N target is written exactly once,
\* with grid[i][j]; with no skip every cell of the target is written once
\* with grid[i][j] and the range is resized to M-by-N; no cell outside the
\* target is written.
C9_SkipTopLeft ==
    (op.name = "write" /\ ~c.meta.scalar /\ NRows(c.value) >= 1
        /\ (op.opts.skip # PyNone =>
                (op.opts.skip.v[1] <= NRows(c.value)
                 /\ op.opts.skip.v[2] <= NCols(c.value)))) =>
    LET grid == c.value
        sk == IF op.opts.skip = PyNone THEN <<0, 0>> ELSE op.opts.skip.v
    IN  /\ c.range = Range(0, 0, NRows(grid), NCols(grid))
        /\ \A p \in Coords :
              IF p[1] < NRows(grid) /\ p[2] < NCols(grid)
              THEN IF p[1] < sk[1] /\ p[2] < sk[2]
                   THEN c.writes[p] = 0 /\ sheet[p] = op.start.sheet[p]
                   ELSE c.writes[p] = 1 /\ sheet[p] = Cell(grid, p)
              ELSE c.writes[p] = 0

\* C9 witness: a grid of three rows and two columns was written over older
\* cells with _skip_tl_cells = (2, 1): the two protected cells kept the older
\* content and the four others took the grid's
C9_Witness ==
    /\ op.name = "write"
    /\ op.opts.skip = Tuple(2, 1)
    /\ NRows(c.value) = 3 /\ NCols(c.value) = 2
    /\ op.start.sheet = OldSheet
    /\ sheet[<<0, 0>>] = OldSheet[<<0, 0>>] /\ sheet[<<0, 0>>] # Cell(c.value, <<0, 0>>)
    /\ sheet[<<1, 0>>] = OldSheet[<<1, 0>>] /\ c.writes[<<1, 0>>] = 0
    /\ sheet[<<0, 1>>] = Cell(c.value, <<0, 1>>) /\ c.writes[<<0, 1>>] = 1
    /\ sheet[<<2, 0>>] = Cell(c.value, <<2, 0>>) /\ c.writes[<<2, 0>>] = 1

\* Python's == on two cells: numbers compare by value, int or float
CellEq(a, b) ==
    IF a.t \in {"int", "float"} /\ b.t \in {"int", "float"} THEN a.v = b.v ELSE a = b
\* Python's == on two values of at most two dimensions, with their shapes
RowEq(a, b) ==
    IF IsList(a) /\ IsList(b)
    THEN PyLen(a) = PyLen(b) /\ \A k \in 1..PyLen(a) : CellEq(a.v[k], b.v[k])
    ELSE ~IsList(a) /\ ~IsList(b) /\ CellEq(a, b)
PyEq(a, b) ==
    IF IsList(a) /\ IsList(b)
    THEN PyLen(a) = PyLen(b) /\ \A k \in 1..PyLen(a) : RowEq(a.v[k], b.v[k])
    ELSE ~IsList(a) /\ ~IsList(b) /\ CellEq(a, b)

\* the shapes of a caller's value
IsScalar(x) == ~IsList(x)
IsFlat(x) == IsList(x) /\ PyLen(x) >= 1 /\ ~IsList(Item(x, 0))
IsNested(x) == IsList(x) /\ PyLen(x) >= 1 /\ IsList(Item(x, 0)) /\ NCols(x) >= 1

\* a round trip with ndim absent, no transpose, no converters and no other
\* option: the value was written and the range it was written to read back
RoundTrip ==
    /\ op.name = "read"
    /\ op.opts = DefaultOptions
    /\ (IsScalar(op.orig) \/ IsFlat(op.orig) \/ IsNested(op.orig))

\* C4 as stated: the round trip returns every scalar, every flat sequence of
\* length >= 1 and every M-by-N grid (M, N >= 1) with its shape and cells.
C4_RoundTrip_Original == RoundTrip => (c.err = NoError /\ PyEq(c.value, op.orig))

\* C4, amended: the round trip returns a scalar, a flat sequence of length
\* >= 2 and a nested grid of M >= 2 rows and N >= 2 columns with its shape
\* and cells.  A flat sequence of length 1 and a nested 1-by-1 grid come
\* back as the bare cell, a nested 1-by-N grid (N >= 2) as the flat sequence
\* of its row and a nested N-by-1 grid (N >= 2) as the flat sequence of its
\* column.
C4_RoundTrip ==
    RoundTrip =>
        /\ c.err = NoError
        /\ (IsScalar(op.orig) \/ (IsFlat(op.orig) /\ PyLen(op.orig) >= 2)
             \/ (IsNested(op.orig) /\ NRows(op.orig) >= 2 /\ NCols(op.orig) >= 2)) =>
              PyEq(c.value, op.orig)
        /\ (IsFlat(op.orig) /\ PyLen(op.orig) = 1) => PyEq(c.value, Item(op.orig, 0))
        /\ (IsNested(op.orig) /\ NRows(op.orig) = 1 /\ NCols(op.orig) = 1) =>
              PyEq(c.value, Item(Item(op.orig, 0), 0))
        /\ (IsNested(op.orig) /\ (NRows(op.orig) = 1 \/ NCols(op.orig) = 1)
               /\ ~(NRows(op.orig) = 1 /\ NCols(op.orig) = 1)) =>
              PyEq(c.value, FlatOf(op.orig))

\* C4 witness: a grid of two rows and three columns, one cell of it None,
\* came back nested, with its cells read as floats
C4_Witness ==
    /\ RoundTrip
    /\ IsNested(op.orig) /\ NRows(op.orig) = 2 /\ NCols(op.orig) = 3
    /\ Item(Item(op.orig, 0), 1) = PyNone
    /\ PyEq(c.value, op.orig)
    /\ Item(Item(c.value, 1), 2).t = "float"
    /\ op.start.range = Range(0, 0, 2, 3)

\* the grid a write puts on the worksheet, from the caller's value: a scalar
\* is one cell, a flat sequence one row, a nested sequence its rows;
\* transposed when the option is set
InputRows(x) == IF ~IsList(x) THEN 1 ELSE IF IsFlat(x) THEN 1 ELSE PyLen(x)
InputCols(x) ==
    IF ~IsList(x) THEN 1 ELSE IF PyLen(x) = 0 THEN 0
    ELSE IF IsFlat(x) THEN PyLen(x) ELSE PyLen(Item(x, 0))
InputCell(x, i, j) ==
    IF ~IsList(x) THEN x ELSE IF IsFlat(x) THEN Item(x, j) ELSE Item(Item(x, i), j)
WrittenShape(x, transpose) ==
    IF transpose
    THEN IF InputCols(x) = 0 THEN <<0, 0>> ELSE <<InputCols(x), InputRows(x)>>
    ELSE <<InputRows(x), InputCols(x)>>
WrittenCell(x, transpose, i, j) ==
    prepare_xl_data_element(IF transpose THEN InputCell(x, j, i) ELSE InputCell(x, i, j))

\* the region expanded from the anchor before the write of the state
ExpandedBefore == Expand(op.start.sheet, Anchor, op.opts.expand)

\* C6: after every write of a sequence of writes to the same anchor under
\* the same expand option, each cell of the region that was expanded before
\* the write holds the written value's cell if it lies in the value's extent
\* and is empty otherwise (the block that _skip_tl_cells protects is neither
\* written nor cleared); the clear call received the range of the caller,
\* vshape = the rows and columns of the grid written, after transposition,
\* and skip = the _skip_tl_cells option or (0, 0).
C6_ExpandShrink ==
    (op.name = "write") =>
    LET shape == WrittenShape(op.orig, op.opts.transpose)
        sk == IF op.opts.skip = PyNone THEN <<0, 0>> ELSE op.opts.skip.v
    IN  /\ c.clears = <<[range |-> Anchor, skip |-> sk, vshape |-> shape]>>
        /\ \A o \in Offsets(ExpandedBefore) :
              IF o[1] < sk[1] /\ o[2] < sk[2]
              THEN sheet[o] = op.start.sheet[o]
              ELSE IF o[1] < shape[1] /\ o[2] < shape[2]
              THEN sheet[o] = WrittenCell(op.orig, op.opts.transpose, o[1], o[2])
              ELSE sheet[o] = XlEmpty

\* C6 witness: the region expanded before the write was three by three, a
\* scalar was written with nothing protected, the anchor holds it and the
\* eight other cells are empty
C6_Witness ==
    /\ op.name = "write"
    /\ op.opts.skip = PyNone
    /\ ExpandedBefore = Range(0, 0, 3, 3)
    /\ ~IsList(op.orig) /\ op.orig # PyNone
    /\ sheet[<<0, 0>>] = XlNumber(op.orig.v)
    /\ op.start.sheet[<<0, 0>>] # sheet[<<0, 0>>]
    /\ \A o \in Offsets(ExpandedBefore) \ {<<0, 0>>} :
          op.start.sheet[o] # XlEmpty /\ sheet[o] = XlEmpty

====
